---- MODULE Spec2Model ----
(***************************************************************************)
(* WebSocketManager (src/unnamed/part_005): the connection state machine,  *)
(* the pending message queue, the reconnect loop and the read and write    *)
(* loops, as cooperating threads over the manager's shared fields.         *)
(*                                                                         *)
(* Threads: UI (the caller of the public methods: Connect, Disconnect,     *)
(* Send, EnableReconnect), the reconnect loop goroutines (Loops), and per  *)
(* successful Connect one read loop and one write loop (Gens).             *)
(***************************************************************************)
EXTENDS Integers, Sequences, FiniteSets, TLC

\* ------------------------------------------------------------------ bounds
\* wsm.maxQueueSize, scaled down (1000 in NewWebSocketManager).
maxQueueSize == 2
\* cap(wsm.sendChan), scaled down (100 in NewWebSocketManager).
SendChanCap == 1
\* Goroutine slots for reconnectLoop instances that may run at once.
MaxLoops == 2
\* Number of successful handshakes in a run of the connection life cycle.
MaxGen == 1
\* Seconds of real time in a run of the keepalive.
MaxTime == 40
\* Number of connection handles, each with the read and the write loop its
\* Connect starts.
MaxHandles == 2
\* Number of Send calls in a run; the messages are numbered 1..MaxSends.
MaxSends == 3
\* Cap on wsm.reconnectAttempts.
MaxAttempts == 2
\* Cap on wsm.reconnectAttempts where the reconnect loop retries against a
\* server that stays unreachable.
MaxRetries == 36
\* Number of updateState calls in a run of the notification protocol.
MaxUpdates == 2

\* cap(wsm.reconnectChan)
ReconnectChanCap == 1

UI == 0
Loops == 1..MaxLoops
Threads == {UI} \cup Loops
Gens == 1..MaxHandles

StateDisconnected == "Disconnected"
StateConnecting == "Connecting"
StateConnected == "Connected"
StateReconnecting == "Reconnecting"
ConnectionState ==
  {StateDisconnected, StateConnecting, StateConnected, StateReconnecting}

\* -------------------------------------------------- int64 (time.Duration)
\* A 64-bit two's-complement integer as its eight bytes, least significant
\* first.
Int64 == [0..7 -> 0..255]
Zero64 == [i \in 0..7 |-> 0]

\* The int64 of a small non-negative number.
FromInt(n) == [i \in 0..7 |-> IF i < 4 THEN (n \div (256^i)) % 256 ELSE 0]

\* int64(1) << k: bit k, and 0 when k is 64 or more.
Shl1(k) == [i \in 0..7 |-> IF k \div 8 = i THEN 2^(k % 8) ELSE 0]

RECURSIVE ColSum(_, _, _, _)
\* a[0]*b[i] + a[1]*b[i-1] + ... + a[j]*b[i-j]
ColSum(a, b, i, j) ==
  IF j < 0 THEN 0 ELSE a[j] * b[i - j] + ColSum(a, b, i, j - 1)

RECURSIVE MulTotal(_, _, _)
\* Column i of the long multiplication, with the carry of the columns below.
MulTotal(a, b, i) ==
  ColSum(a, b, i, i) + (IF i = 0 THEN 0 ELSE MulTotal(a, b, i - 1) \div 256)

\* a * b in int64: the product modulo 2^64.
Mul64(a, b) == [i \in 0..7 |-> MulTotal(a, b, i) % 256]

IsNegative(a) == a[7] >= 128

UnsignedLess(a, b) ==
  \E i \in 0..7 : a[i] < b[i] /\ \A j \in (i + 1)..7 : a[j] = b[j]

\* a > b on int64.
Greater64(a, b) ==
  IF IsNegative(a) # IsNegative(b) THEN IsNegative(b) ELSE UnsignedLess(b, a)

\* time.Second, in nanoseconds.
Second == FromInt(1000000000)

\* wsm.maxReconnectDelay: 2 * time.Minute.
maxReconnectDelay == Mul64(FromInt(2 * 60), Second)

\* reconnectLoop's delay for attempt n:
\* baseDelay * time.Duration(1<<uint(n-1)), capped at maxDelay.
backoffDelay(n) ==
  LET d == Mul64(Second, Shl1(n - 1))
  IN IF Greater64(d, maxReconnectDelay) THEN maxReconnectDelay ELSE d

\* pingInterval and pongTimeout, in seconds.
pingInterval == 30
pongTimeout == 10

\* backoffDelay for every attempt number a run can reach.
backoffTable == [n \in 1..(MaxAttempts + MaxRetries) |-> backoffDelay(n)]

VARIABLES
  state,              \* wsm.state
  reconnectEnabled,   \* wsm.reconnectEnabled
  reconnectAttempts,  \* wsm.reconnectAttempts
  conn,               \* wsm.conn: 0 is nil, g > 0 the handle of handshake g
  handle,             \* per handle: "none", "open", "closed" (locally, or broken)
  doneClosed,         \* wsm.done has been closed
  crashed,            \* the process panicked
  reconnectChan,      \* number of signals buffered in wsm.reconnectChan
  sendChan,           \* contents of wsm.sendChan
  messageQueue,       \* wsm.messageQueue
  pc,                 \* per thread: where it is
  flushLocal,         \* per thread: flushQueue's local `messages` still to hand off
  sendState,          \* Send's local `state` (its zero value outside Send)
  sendResult,         \* what Send returned, until the UI's next call
  rl,                 \* per generation: the read loop's position
  readOn,             \* per generation: the handle its ReadMessage blocks on
  wl,                 \* per generation: the write loop's position
  nextMsg,            \* number of Send calls made
  \* history variables, read by the properties only
  lastTrigger,        \* outcome of the latest triggerReconnect
  afterDisconnect,    \* Disconnect returned, and no Connect/EnableReconnect(true) since
  authRejected,       \* a handshake got 401, and no EnableReconnect(true) since
  delay,              \* per reconnect loop: its local `delay` (int64 nanoseconds)
                      \* during the backoff wait, << >> outside it
  onStateChange,      \* wsm.onStateChange is not nil
  onError,            \* wsm.onError is not nil
  onErrorCalls,       \* number of invocations of wsm.onError
  updating,           \* per thread: << >>, or, between updateState's critical
                      \* section and its notification, << oldState, state >>,
                      \* its local and its parameter, followed by "checked"
                      \* once the test before the call has passed
  updates,            \* number of updateState calls made
  notifications,      \* arguments of the onStateChange invocations, in order
  \* history variables, read by the properties only
  changes,            \* the values the state field changed to, in order
  nilSeen,            \* onStateChange was nil while an updateState call was under way
  flushSnapshot,      \* per thread in flushQueue: the queue it took
  flushed,            \* per thread in flushQueue: what it handed to sendChan, in order
  timers              \* the clock, in seconds since construction (now), and per
                      \* handle the read deadline set on it and the next tick of
                      \* the ticker of the write loop started with it (0: none)

vars ==
  << state, reconnectEnabled, reconnectAttempts, conn, handle, doneClosed, crashed,
     reconnectChan, sendChan, messageQueue, pc, flushLocal, sendState, sendResult,
     rl, readOn, wl, nextMsg, lastTrigger, afterDisconnect, authRejected,
     delay, onStateChange, onError, onErrorCalls, updating,
     updates, notifications, changes, nilSeen, flushSnapshot, flushed, timers >>

connVars == << conn, handle >>
queueVars == << messageQueue, sendChan >>
ioLoopVars == << rl, readOn, wl >>
sendVars == << sendState, sendResult, nextMsg >>
histVars == << afterDisconnect, authRejected >>
triggerVars == << reconnectChan, lastTrigger >>
callbackVars == << onStateChange, onError, onErrorCalls >>
notifyVars == << updating, updates, notifications, changes, nilSeen >>
flushHist == << flushSnapshot, flushed >>

Init ==
  /\ state = StateDisconnected
  /\ reconnectEnabled = TRUE
  /\ reconnectAttempts = 0
  /\ conn = 0
  /\ handle = [g \in Gens |-> "none"]
  /\ doneClosed = FALSE
  /\ crashed = FALSE
  /\ reconnectChan = 0
  /\ sendChan = << >>
  /\ messageQueue = << >>
  /\ pc = [t \in Threads |-> "idle"]
  /\ flushLocal = [t \in Threads |-> << >>]
  /\ sendState = StateDisconnected
  /\ sendResult = "none"
  /\ rl = [g \in Gens |-> "off"]
  /\ readOn = [g \in Gens |-> 0]
  /\ wl = [g \in Gens |-> "off"]
  /\ nextMsg = 0
  /\ lastTrigger = "none"
  /\ afterDisconnect = FALSE
  /\ authRejected = FALSE
  /\ delay = [l \in Loops |-> << >>]
  /\ onStateChange = FALSE
  /\ onError = FALSE
  /\ onErrorCalls = 0
  /\ updating = [t \in Threads |-> << >>]
  /\ updates = 0
  /\ notifications = << >>
  /\ changes = << >>
  /\ nilSeen = FALSE
  /\ flushSnapshot = [t \in Threads |-> << >>]
  /\ flushed = [t \in Threads |-> << >>]
  /\ timers = [now |-> 0, readDeadline |-> [g \in Gens |-> 0],
               ticker |-> [g \in Gens |-> 0]]

\* ----------------------------------------------------------------- helpers

\* updateState, as the manager's own operations see it: the state field takes
\* the new value. The notification that follows the critical section reads and
\* writes no field but the callback; updateStateLocked and updateStateNotify
\* below model the function with it.
updateState(new) == state' = new

\* queueMessage with the capacity test off by one (> for >=).
queueMessageOffByOne(q, m) ==
  IF Len(q) > maxQueueSize THEN Append(Tail(q), m) ELSE Append(q, m)

\* queueMessage that refuses the new message when the queue is full.
queueMessageDropNewest(q, m) ==
  IF Len(q) >= maxQueueSize THEN q ELSE Append(q, m)

\* queueMessage: drop the oldest entry when the queue is full, then append.
queueMessage(q, m) ==
  IF Len(q) >= maxQueueSize THEN Append(Tail(q), m) ELSE Append(q, m)

LoopActive(l) == pc[l] # "idle"
ActiveLoops == {l \in Loops : LoopActive(l)}

\* triggerReconnect that starts a loop on every call.
triggerReconnectAlways(p) ==
  /\ \E l \in Loops : p[l] = "idle"
  /\ LET l == CHOOSE k \in Loops : p[k] = "idle"
     IN pc' = [p EXCEPT ![l] = "start"]
  /\ reconnectChan' = reconnectChan
  /\ lastTrigger' = "spawned"

\* triggerReconnect: a non-blocking send on reconnectChan; when the signal is
\* accepted a reconnectLoop goroutine is started, otherwise nothing happens.
\* p is the pc function with the calling thread's own move already made.
triggerReconnect(p) ==
  IF reconnectChan < ReconnectChanCap
  THEN /\ \E l \in Loops : p[l] = "idle"
       /\ LET l == CHOOSE k \in Loops : p[k] = "idle"
          IN pc' = [p EXCEPT ![l] = "start"]
       /\ reconnectChan' = reconnectChan + 1
       /\ lastTrigger' = "spawned"
  ELSE /\ pc' = p
       /\ reconnectChan' = reconnectChan
       /\ lastTrigger' = "dropped"

noTrigger(p) == pc' = p /\ UNCHANGED triggerVars

\* A reconnect loop that ends when its Connect fails.
returnFromConnectGivesUp(t, res) == [pc EXCEPT ![t] = "idle"]

\* A thread's return from Connect: the UI is idle again and holds the result;
\* a reconnect loop exits on success and goes back to its loop condition on
\* failure.
returnFromConnect(t, res) ==
  IF t = UI
  THEN [pc EXCEPT ![t] = "idle"]
  ELSE [pc EXCEPT ![t] = IF res = "ok" THEN "idle" ELSE "check"]

\* --------------------------------------------------------------- callbacks

\* SetCallbacks: the callback fields are replaced; each may be nil.
SetCallbacks(stateCb, errorCb) ==
  /\ ~crashed
  /\ onStateChange' = stateCb
  /\ onError' = errorCb
  /\ nilSeen' = (nilSeen \/ (~stateCb /\ \E t \in Threads : updating[t] # << >>))
  /\ UNCHANGED << state, reconnectEnabled, reconnectAttempts, connVars, doneClosed,
                  crashed, triggerVars, queueVars, pc, flushLocal, sendVars,
                  ioLoopVars, histVars, delay, onErrorCalls, updating, updates,
                  notifications, changes, flushHist, timers >>

\* updateState that notifies whether or not the value changed.
updateStateNotifyAlways(t) ==
  /\ ~crashed
  /\ Len(updating[t]) = 2
  /\ notifications' =
       IF onStateChange THEN Append(notifications, updating[t][2]) ELSE notifications
  /\ updating' = [updating EXCEPT ![t] = << >>]
  /\ UNCHANGED << state, reconnectEnabled, reconnectAttempts, connVars, doneClosed,
                  crashed, triggerVars, queueVars, pc, flushLocal, sendVars,
                  ioLoopVars, histVars, delay, callbackVars, timers, updates, changes,
                  nilSeen, flushHist >>

\* updateState(new) called by thread t, its critical section: the old value is
\* kept in a local, and the field takes the new value.
updateStateLocked(t, new, maxUpdates) ==
  /\ ~crashed
  /\ updating[t] = << >>
  /\ updates < maxUpdates
  /\ updates' = updates + 1
  /\ updating' = [updating EXCEPT ![t] = << state, new >>]
  /\ state' = new
  /\ changes' = IF state # new THEN Append(changes, new) ELSE changes
  /\ nilSeen' = (nilSeen \/ ~onStateChange)
  /\ UNCHANGED << reconnectEnabled, reconnectAttempts, connVars, doneClosed,
                  crashed, triggerVars, queueVars, pc, flushLocal, sendVars,
                  ioLoopVars, histVars, delay, callbackVars, timers, notifications,
                  flushHist >>

\* updateState, after the critical section: when the old and the new value
\* differ and onStateChange is not nil, it is invoked with the new value.
\* The callback field is read outside any lock; here it is read once, for the
\* test and for the call.
updateStateNotify(t) ==
  /\ ~crashed
  /\ Len(updating[t]) = 2
  /\ notifications' =
       IF updating[t][1] # updating[t][2] /\ onStateChange
       THEN Append(notifications, updating[t][2])
       ELSE notifications
  /\ updating' = [updating EXCEPT ![t] = << >>]
  /\ UNCHANGED << state, reconnectEnabled, reconnectAttempts, connVars, doneClosed,
                  crashed, triggerVars, queueVars, pc, flushLocal, sendVars,
                  ioLoopVars, histVars, delay, callbackVars, timers, updates, changes,
                  nilSeen, flushHist >>

\* updateState, after the critical section, with the callback field read once
\* for the test and once more for the call. This is the test: the values
\* differ and the field is not nil.
updateStateChecked(t) ==
  /\ ~crashed
  /\ Len(updating[t]) = 2
  /\ updating[t][1] # updating[t][2]
  /\ onStateChange
  /\ updating' = [updating EXCEPT ![t] = Append(updating[t], "checked")]
  /\ UNCHANGED << state, reconnectEnabled, reconnectAttempts, connVars, doneClosed,
                  crashed, triggerVars, queueVars, pc, flushLocal, sendVars,
                  ioLoopVars, histVars, delay, callbackVars, timers, updates,
                  notifications, changes, nilSeen, flushHist >>

\* The call that follows the test: the field is read again and the function it
\* holds is called; calling a nil function panics.
updateStateInvoke(t) ==
  /\ ~crashed
  /\ Len(updating[t]) = 3
  /\ IF onStateChange
     THEN /\ notifications' = Append(notifications, updating[t][2])
          /\ updating' = [updating EXCEPT ![t] = << >>]
          /\ UNCHANGED crashed
     ELSE /\ crashed' = TRUE
          /\ UNCHANGED << notifications, updating >>
  /\ UNCHANGED << state, reconnectEnabled, reconnectAttempts, connVars, doneClosed,
                  triggerVars, queueVars, pc, flushLocal, sendVars,
                  ioLoopVars, histVars, delay, callbackVars, timers, updates, changes,
                  nilSeen, flushHist >>

\* ----------------------------------------------------------------- Connect

\* Connect, first statement: updateState(StateConnecting); the dial follows.
ConnectBegin(t) ==
  /\ updateState(StateConnecting)
  /\ pc' = [pc EXCEPT ![t] = "dial"]

\* Connect called by the UI thread.
UIConnect ==
  /\ ~crashed
  /\ pc[UI] = "idle"
  /\ sendResult' = "none"
  /\ ConnectBegin(UI)
  /\ afterDisconnect' = FALSE
  /\ UNCHANGED << reconnectEnabled, reconnectAttempts, connVars, doneClosed, crashed,
                  triggerVars, queueVars, flushLocal, sendState, nextMsg,
                  ioLoopVars, authRejected >>
  /\ UNCHANGED << delay, callbackVars, timers, notifyVars, flushHist >>

\* Dial returns an error that is not a 401: updateState(StateDisconnected), return err.
DialFail(t) ==
  /\ ~crashed
  /\ pc[t] = "dial"
  /\ updateState(StateDisconnected)
  /\ pc' = returnFromConnect(t, "err")
  /\ UNCHANGED << reconnectEnabled, reconnectAttempts, connVars, doneClosed, crashed,
                  triggerVars, queueVars, flushLocal, sendVars, ioLoopVars, histVars >>
  /\ UNCHANGED << delay, callbackVars, timers, notifyVars, flushHist >>

\* Dial returns an error with a 401 response: reconnectEnabled = false,
\* updateState(StateDisconnected), return the authentication error.
DialAuth(t) ==
  /\ ~crashed
  /\ pc[t] = "dial"
  /\ reconnectEnabled' = FALSE
  /\ updateState(StateDisconnected)
  /\ pc' = returnFromConnect(t, "auth")
  /\ authRejected' = TRUE
  /\ UNCHANGED << reconnectAttempts, connVars, doneClosed, crashed, triggerVars,
                  queueVars, flushLocal, sendVars, ioLoopVars, afterDisconnect >>
  /\ UNCHANGED << delay, callbackVars, timers, notifyVars, flushHist >>

\* Dial succeeds: the handle is stored, the counter reset, the state set to
\* Connected, the read and write loops started, and flushQueue takes the
\* whole queue into its local slice (its first critical section).
DialOk(t, maxGen) ==
  /\ ~crashed
  /\ pc[t] = "dial"
  /\ conn < maxGen
  /\ LET g == conn + 1 IN
       /\ conn' = g
       /\ handle' = [handle EXCEPT ![g] = "open"]
       /\ rl' = [rl EXCEPT ![g] = "select"]
       /\ wl' = [wl EXCEPT ![g] = "run"]
  /\ reconnectAttempts' = 0
  /\ updateState(StateConnected)
  /\ messageQueue' = << >>
  /\ IF messageQueue = << >>
     THEN /\ pc' = returnFromConnect(t, "ok")
          /\ UNCHANGED flushLocal
     ELSE /\ pc' = [pc EXCEPT ![t] = "flush"]
          /\ flushLocal' = [flushLocal EXCEPT ![t] = messageQueue]
  /\ flushSnapshot' = [flushSnapshot EXCEPT ![t] = messageQueue]
  /\ UNCHANGED flushed
  /\ UNCHANGED << reconnectEnabled, doneClosed, crashed, triggerVars, sendChan,
                  sendVars, readOn, histVars >>
  /\ UNCHANGED << delay, callbackVars, timers, notifyVars >>

\* Connect after a successful dial, lines 120 and 121 only: the handle is
\* stored and the counter reset. (The runs that take Connect statement by
\* statement let one Connect get this far.)
ConnectStore(t, maxGen) ==
  /\ ~crashed
  /\ pc[t] = "dial"
  /\ conn < maxGen
  /\ conn' = conn + 1
  /\ handle' = [handle EXCEPT ![conn + 1] = "open"]
  /\ reconnectAttempts' = 0
  /\ pc' = [pc EXCEPT ![t] = "stored"]
  /\ UNCHANGED << state, reconnectEnabled, doneClosed, crashed, triggerVars,
                  queueVars, flushLocal, sendVars, ioLoopVars, histVars >>
  /\ UNCHANGED << delay, callbackVars, timers, notifyVars, flushHist >>

\* Connect, from updateState(StateConnected) on: the state is set, the read
\* and write loops started, and flushQueue takes the queue.
ConnectStarted(t) ==
  /\ ~crashed
  /\ pc[t] = "stored"
  /\ updateState(StateConnected)
  /\ rl' = [rl EXCEPT ![conn] = "select"]
  /\ wl' = [wl EXCEPT ![conn] = "run"]
  /\ messageQueue' = << >>
  /\ IF messageQueue = << >>
     THEN /\ pc' = returnFromConnect(t, "ok")
          /\ UNCHANGED flushLocal
     ELSE /\ pc' = [pc EXCEPT ![t] = "flush"]
          /\ flushLocal' = [flushLocal EXCEPT ![t] = messageQueue]
  /\ flushSnapshot' = [flushSnapshot EXCEPT ![t] = messageQueue]
  /\ UNCHANGED flushed
  /\ UNCHANGED << reconnectEnabled, reconnectAttempts, connVars, doneClosed,
                  crashed, triggerVars, sendChan, sendVars, readOn, histVars >>
  /\ UNCHANGED << delay, callbackVars, timers, notifyVars >>

\* flushQueue handing off the newest of its messages first.
FlushHandOffNewestFirst(t) ==
  /\ ~crashed
  /\ pc[t] = "flush"
  /\ Len(sendChan) < SendChanCap
  /\ LET n == Len(flushLocal[t]) IN
       /\ sendChan' = Append(sendChan, flushLocal[t][n])
       /\ flushLocal' = [flushLocal EXCEPT ![t] = SubSeq(flushLocal[t], 1, n - 1)]
       /\ flushed' = [flushed EXCEPT ![t] = Append(flushed[t], flushLocal[t][n])]
       /\ IF n = 1
          THEN pc' = [pc EXCEPT ![t] = "flushed"]
          ELSE UNCHANGED pc
  /\ UNCHANGED flushSnapshot
  /\ UNCHANGED << state, reconnectEnabled, reconnectAttempts, connVars, doneClosed,
                  crashed, triggerVars, messageQueue, sendVars,
                  ioLoopVars, histVars >>
  /\ UNCHANGED << delay, callbackVars, timers, notifyVars >>

\* flushQueue, one iteration whose hand-off to sendChan succeeds; after the
\* last item the loop is over.
FlushHandOff(t) ==
  /\ ~crashed
  /\ pc[t] = "flush"
  /\ Len(sendChan) < SendChanCap
  /\ sendChan' = Append(sendChan, Head(flushLocal[t]))
  /\ flushLocal' = [flushLocal EXCEPT ![t] = Tail(flushLocal[t])]
  /\ flushed' = [flushed EXCEPT ![t] = Append(flushed[t], Head(flushLocal[t]))]
  /\ UNCHANGED flushSnapshot
  /\ IF Tail(flushLocal[t]) = << >>
     THEN pc' = [pc EXCEPT ![t] = "flushed"]
     ELSE UNCHANGED pc
  /\ UNCHANGED << state, reconnectEnabled, reconnectAttempts, connVars, doneClosed,
                  crashed, triggerVars, messageQueue, sendVars,
                  ioLoopVars, histVars >>
  /\ UNCHANGED << delay, callbackVars, timers, notifyVars >>

\* flushQueue's loop is over: flushQueue returns, Connect returns nil.
ConnectReturn(t) ==
  /\ ~crashed
  /\ pc[t] = "flushed"
  /\ pc' = returnFromConnect(t, "ok")
  /\ flushSnapshot' = [flushSnapshot EXCEPT ![t] = << >>]
  /\ flushed' = [flushed EXCEPT ![t] = << >>]
  /\ UNCHANGED << state, reconnectEnabled, reconnectAttempts, connVars, doneClosed,
                  crashed, triggerVars, queueVars, flushLocal, sendVars,
                  ioLoopVars, histVars >>
  /\ UNCHANGED << delay, callbackVars, timers, notifyVars >>

\* flushQueue, one iteration whose hand-off times out (sendChan stayed full for
\* 100ms): the item is re-queued with queueMessage and flushQueue returns; its
\* local slice, with the items behind that one, is dropped.
FlushTimeout(t) ==
  /\ ~crashed
  /\ pc[t] = "flush"
  /\ Len(sendChan) >= SendChanCap
  /\ messageQueue' = queueMessage(messageQueue, Head(flushLocal[t]))
  /\ flushLocal' = [flushLocal EXCEPT ![t] = << >>]
  /\ pc' = returnFromConnect(t, "ok")
  /\ UNCHANGED << state, reconnectEnabled, reconnectAttempts, connVars, doneClosed,
                  crashed, triggerVars, sendChan, sendVars, ioLoopVars,
                  histVars >>
  /\ UNCHANGED << delay, callbackVars, timers, notifyVars >>
  /\ flushSnapshot' = [flushSnapshot EXCEPT ![t] = << >>]
  /\ flushed' = [flushed EXCEPT ![t] = << >>]

\* -------------------------------------------------------------- Disconnect

\* Disconnect: reconnectEnabled = false; close(done), which panics when done
\* is closed already; conn.Close() when conn is not nil;
\* updateState(StateDisconnected).
UIDisconnect ==
  /\ ~crashed
  /\ pc[UI] = "idle"
  /\ sendResult' = "none"
  /\ reconnectEnabled' = FALSE
  /\ IF doneClosed
     THEN /\ crashed' = TRUE
          /\ UNCHANGED << state, doneClosed, handle, afterDisconnect >>
     ELSE /\ doneClosed' = TRUE
          /\ handle' = IF conn # 0 THEN [handle EXCEPT ![conn] = "closed"] ELSE handle
          /\ updateState(StateDisconnected)
          /\ afterDisconnect' = TRUE
          /\ UNCHANGED crashed
  /\ UNCHANGED << reconnectAttempts, conn, triggerVars, queueVars, pc, flushLocal,
                  sendState, nextMsg, ioLoopVars, authRejected >>
  /\ UNCHANGED << delay, callbackVars, timers, notifyVars, flushHist >>

\* -------------------------------------------------------------------- Send

\* Send, first statement: the state is read under the read lock.
UISendBegin(maxSends) ==
  /\ ~crashed
  /\ pc[UI] = "idle"
  /\ nextMsg < maxSends
  /\ nextMsg' = nextMsg + 1
  /\ sendState' = state
  /\ sendResult' = "none"
  /\ pc' = [pc EXCEPT ![UI] = "send"]
  /\ UNCHANGED << state, reconnectEnabled, reconnectAttempts, connVars, doneClosed,
                  crashed, triggerVars, queueVars, flushLocal,
                  ioLoopVars, histVars >>
  /\ UNCHANGED << delay, callbackVars, timers, notifyVars, flushHist >>

\* Send's else-branch returning nil where the code returns the queued error.
SendNotConnectedReturnsNil ==
  /\ ~crashed
  /\ pc[UI] = "send"
  /\ sendState # StateConnected
  /\ messageQueue' = queueMessage(messageQueue, nextMsg)
  /\ IF sendState = StateDisconnected /\ reconnectEnabled
     THEN triggerReconnect([pc EXCEPT ![UI] = "idle"])
     ELSE noTrigger([pc EXCEPT ![UI] = "idle"])
  /\ sendResult' = "delivered"
  /\ sendState' = StateDisconnected
  /\ UNCHANGED << state, reconnectEnabled, reconnectAttempts, connVars, doneClosed,
                  crashed, sendChan, flushLocal, nextMsg, ioLoopVars, histVars >>
  /\ UNCHANGED << delay, callbackVars, timers, notifyVars, flushHist >>

\* Send, state read was not Connected: queueMessage; triggerReconnect when the
\* state read was Disconnected and reconnection is enabled; the call returns
\* "not connected, message queued".
SendNotConnected ==
  /\ ~crashed
  /\ pc[UI] = "send"
  /\ sendState # StateConnected
  /\ messageQueue' = queueMessage(messageQueue, nextMsg)
  /\ IF sendState = StateDisconnected /\ reconnectEnabled
     THEN triggerReconnect([pc EXCEPT ![UI] = "idle"])
     ELSE noTrigger([pc EXCEPT ![UI] = "idle"])
  /\ sendResult' = "queued"
  /\ sendState' = StateDisconnected
  /\ UNCHANGED << state, reconnectEnabled, reconnectAttempts, connVars, doneClosed,
                  crashed, sendChan, flushLocal, nextMsg, ioLoopVars, histVars >>
  /\ UNCHANGED << delay, callbackVars, timers, notifyVars, flushHist >>

\* Send, state read was Connected and sendChan has room: hand-off, return nil.
SendDeliver ==
  /\ ~crashed
  /\ pc[UI] = "send"
  /\ sendState = StateConnected
  /\ Len(sendChan) < SendChanCap
  /\ sendChan' = Append(sendChan, nextMsg)
  /\ sendResult' = "delivered"
  /\ sendState' = StateDisconnected
  /\ pc' = [pc EXCEPT ![UI] = "idle"]
  /\ UNCHANGED << state, reconnectEnabled, reconnectAttempts, connVars, doneClosed,
                  crashed, triggerVars, messageQueue, flushLocal,
                  nextMsg, ioLoopVars, histVars >>
  /\ UNCHANGED << delay, callbackVars, timers, notifyVars, flushHist >>

\* Send, state read was Connected and sendChan stayed full for 5s: "send timeout";
\* the message is not retained.
SendTimeout ==
  /\ ~crashed
  /\ pc[UI] = "send"
  /\ sendState = StateConnected
  /\ Len(sendChan) >= SendChanCap
  /\ sendResult' = "timeout"
  /\ sendState' = StateDisconnected
  /\ pc' = [pc EXCEPT ![UI] = "idle"]
  /\ UNCHANGED << state, reconnectEnabled, reconnectAttempts, connVars, doneClosed,
                  crashed, triggerVars, queueVars, flushLocal, nextMsg, ioLoopVars, histVars >>
  /\ UNCHANGED << delay, callbackVars, timers, notifyVars, flushHist >>

\* --------------------------------------------------------- EnableReconnect

\* EnableReconnect(enable): the flag is set; when enabling and GetState() is
\* Disconnected, triggerReconnect.
UIEnableReconnect(enable) ==
  /\ ~crashed
  /\ pc[UI] = "idle"
  /\ sendResult' = "none"
  /\ reconnectEnabled' = enable
  /\ IF enable /\ state = StateDisconnected
     THEN triggerReconnect(pc)
     ELSE noTrigger(pc)
  /\ afterDisconnect' = IF enable THEN FALSE ELSE afterDisconnect
  /\ authRejected' = IF enable THEN FALSE ELSE authRejected
  /\ UNCHANGED << state, reconnectAttempts, connVars, doneClosed, crashed, queueVars,
                  flushLocal, sendState, nextMsg, ioLoopVars >>
  /\ UNCHANGED << delay, callbackVars, timers, notifyVars, flushHist >>

\* ----------------------------------------------------------- reconnectLoop

\* reconnectLoop, first statement: updateState(StateReconnecting).
RLStart(l) ==
  /\ ~crashed
  /\ pc[l] = "start"
  /\ updateState(StateReconnecting)
  /\ pc' = [pc EXCEPT ![l] = "check"]
  /\ UNCHANGED << reconnectEnabled, reconnectAttempts, connVars, doneClosed, crashed,
                  triggerVars, queueVars, flushLocal, sendVars,
                  ioLoopVars, histVars >>
  /\ UNCHANGED << delay, callbackVars, timers, notifyVars, flushHist >>

\* The loop condition `for wsm.reconnectEnabled`: when it holds the counter is
\* incremented, the backoff delay computed, and the loop goes to its select;
\* otherwise the goroutine ends.
RLCheck(l, maxAttempts) ==
  /\ ~crashed
  /\ pc[l] = "check"
  /\ IF reconnectEnabled
     THEN /\ reconnectAttempts < maxAttempts
          /\ reconnectAttempts' = reconnectAttempts + 1
          /\ delay' = [delay EXCEPT ![l] = backoffTable[reconnectAttempts + 1]]
          /\ pc' = [pc EXCEPT ![l] = "wait"]
     ELSE /\ pc' = [pc EXCEPT ![l] = "idle"]
          /\ UNCHANGED << reconnectAttempts, delay >>
  /\ UNCHANGED << state, reconnectEnabled, connVars, doneClosed, crashed, triggerVars,
                  queueVars, flushLocal, sendVars, ioLoopVars, histVars >>
  /\ UNCHANGED << callbackVars, timers, notifyVars, flushHist >>

\* select, case <-time.After(delay): the backoff elapsed before done was closed;
\* Connect is called.
RLWaitTimer(l) ==
  /\ ~crashed
  /\ pc[l] = "wait"
  /\ ~doneClosed
  /\ delay' = [delay EXCEPT ![l] = << >>]
  /\ ConnectBegin(l)
  /\ UNCHANGED << reconnectEnabled, reconnectAttempts, connVars, doneClosed, crashed,
                  triggerVars, queueVars, flushLocal, sendVars,
                  ioLoopVars, histVars >>
  /\ UNCHANGED << callbackVars, timers, notifyVars, flushHist >>

\* select, case <-wsm.done: the goroutine ends.
RLWaitDone(l) ==
  /\ ~crashed
  /\ pc[l] = "wait"
  /\ doneClosed
  /\ delay' = [delay EXCEPT ![l] = << >>]
  /\ pc' = [pc EXCEPT ![l] = "idle"]
  /\ UNCHANGED << state, reconnectEnabled, reconnectAttempts, connVars, doneClosed,
                  crashed, triggerVars, queueVars, flushLocal, sendVars,
                  ioLoopVars, histVars >>
  /\ UNCHANGED << callbackVars, timers, notifyVars, flushHist >>

\* ---------------------------------------------------------------- readLoop

\* readLoop's first select: done closed -> return (to the deferred function);
\* otherwise ReadMessage is called on the current wsm.conn and blocks.
ReadLoopSelect(g) ==
  /\ ~crashed
  /\ rl[g] = "select"
  /\ IF doneClosed
     THEN rl' = [rl EXCEPT ![g] = "deferred"] /\ UNCHANGED readOn
     ELSE rl' = [rl EXCEPT ![g] = "read"] /\ readOn' = [readOn EXCEPT ![g] = conn]
  /\ UNCHANGED << state, reconnectEnabled, reconnectAttempts, connVars, doneClosed,
                  crashed, triggerVars, queueVars, pc, flushLocal, sendVars, wl, histVars >>
  /\ UNCHANGED << delay, callbackVars, timers, notifyVars, flushHist >>

\* ReadMessage returns a message: onMessage is called, and the next iteration
\* returns when done is closed or calls ReadMessage on the current wsm.conn.
ReadLoopMessage(g) ==
  /\ ~crashed
  /\ rl[g] = "read"
  /\ handle[readOn[g]] = "open"
  /\ IF doneClosed
     THEN rl' = [rl EXCEPT ![g] = "deferred"] /\ UNCHANGED readOn
     ELSE readOn' = [readOn EXCEPT ![g] = conn] /\ UNCHANGED rl
  /\ UNCHANGED << state, reconnectEnabled, reconnectAttempts, connVars, doneClosed,
                  crashed, triggerVars, queueVars, pc, flushLocal, sendVars, wl, histVars >>
  /\ UNCHANGED << delay, callbackVars, timers, notifyVars, flushHist >>

\* ReadMessage returns an error (the handle was closed, or the connection
\* broke): the loop returns.
ReadLoopError(g) ==
  /\ ~crashed
  /\ rl[g] = "read"
  /\ handle[readOn[g]] # "open"
  /\ rl' = [rl EXCEPT ![g] = "deferred"]
  /\ UNCHANGED << state, reconnectEnabled, reconnectAttempts, connVars, doneClosed,
                  crashed, triggerVars, queueVars, pc, flushLocal, sendVars, readOn, wl, histVars >>
  /\ UNCHANGED << delay, callbackVars, timers, notifyVars, flushHist >>

\* handleDisconnect: updateState(StateDisconnected), then triggerReconnect when
\* reconnection is enabled.
handleDisconnect ==
  /\ updateState(StateDisconnected)
  /\ IF reconnectEnabled THEN triggerReconnect(pc) ELSE noTrigger(pc)

\* readLoop's deferred function: wsm.conn.Close() on the handle wsm.conn holds
\* now, then handleDisconnect.
ReadLoopDeferred(g) ==
  /\ ~crashed
  /\ rl[g] = "deferred"
  /\ handle' = [handle EXCEPT ![conn] = "closed"]
  /\ handleDisconnect
  /\ rl' = [rl EXCEPT ![g] = "off"]
  /\ UNCHANGED << reconnectEnabled, reconnectAttempts, conn, doneClosed, crashed,
                  queueVars, flushLocal, sendVars, readOn, wl,
                  histVars >>
  /\ UNCHANGED << delay, callbackVars, timers, notifyVars, flushHist >>

\* --------------------------------------------------------------- writeLoop

\* select, case <-wsm.done: return.
WriteLoopDone(g) ==
  /\ ~crashed
  /\ wl[g] = "run"
  /\ doneClosed
  /\ wl' = [wl EXCEPT ![g] = "off"]
  /\ UNCHANGED << state, reconnectEnabled, reconnectAttempts, connVars, doneClosed,
                  crashed, triggerVars, queueVars, pc, flushLocal, sendVars, rl, readOn, histVars >>
  /\ UNCHANGED << delay, callbackVars, timers, notifyVars, flushHist >>

\* select, case message := <-wsm.sendChan: the message is written on wsm.conn;
\* a write error makes the loop return, and nothing else.
WriteLoopMessage(g) ==
  /\ ~crashed
  /\ wl[g] = "run"
  /\ sendChan # << >>
  /\ sendChan' = Tail(sendChan)
  /\ wl' = IF handle[conn] = "open" THEN wl ELSE [wl EXCEPT ![g] = "off"]
  /\ UNCHANGED << state, reconnectEnabled, reconnectAttempts, connVars, doneClosed,
                  crashed, triggerVars, messageQueue, pc,
                  flushLocal, sendVars, rl, readOn, histVars >>
  /\ UNCHANGED << delay, callbackVars, timers, notifyVars, flushHist >>

\* select, case <-ticker.C: a ping is written on wsm.conn; a write error makes
\* the loop return, and nothing else.
WriteLoopPing(g) ==
  /\ ~crashed
  /\ wl[g] = "run"
  /\ wl' = IF handle[conn] = "open" THEN wl ELSE [wl EXCEPT ![g] = "off"]
  /\ UNCHANGED << state, reconnectEnabled, reconnectAttempts, connVars, doneClosed,
                  crashed, triggerVars, queueVars, pc, flushLocal, sendVars, rl, readOn, histVars >>
  /\ UNCHANGED << delay, callbackVars, timers, notifyVars, flushHist >>

\* ---------------------------------------------------------------- keepalive

\* pingLoop, the goroutine Connect starts with handle g: the read deadline of
\* wsm.conn is set to now + pongTimeout and the pong handler installed. (It has
\* run when the handle has a deadline: the runs that take this action have one
\* handshake, so wsm.conn is handle g.)
pingLoop(g) ==
  /\ ~crashed
  /\ g <= conn
  /\ timers.readDeadline[g] = 0
  /\ timers' = [timers EXCEPT !.readDeadline[conn] = timers.now + pongTimeout]
  /\ UNCHANGED << state, reconnectEnabled, reconnectAttempts, connVars, doneClosed,
                  crashed, triggerVars, queueVars, pc, flushLocal, sendVars,
                  ioLoopVars, histVars, delay, callbackVars, notifyVars, flushHist >>

\* writeLoop's first statement: ticker := time.NewTicker(wsm.pingInterval).
WriteLoopTicker(g) ==
  /\ ~crashed
  /\ wl[g] = "run"
  /\ timers.ticker[g] = 0
  /\ timers' = [timers EXCEPT !.ticker[g] = timers.now + pingInterval]
  /\ UNCHANGED << state, reconnectEnabled, reconnectAttempts, connVars, doneClosed,
                  crashed, triggerVars, queueVars, pc, flushLocal, sendVars,
                  ioLoopVars, histVars, delay, callbackVars, notifyVars, flushHist >>

\* A read is blocked on handle h, and its deadline has not passed.
Reading(h) ==
  /\ \E g \in Gens : rl[g] = "read" /\ readOn[g] = h
  /\ timers.readDeadline[h] # 0
  /\ timers.now < timers.readDeadline[h]

\* select, case <-ticker.C, when the tick is due: the ping is written on
\* wsm.conn and the peer answers at once; the pong handler, run by the read that
\* is blocked on the handle, sets the read deadline to now + pongTimeout. A
\* write error makes the loop return.
WriteLoopTick(g) ==
  /\ ~crashed
  /\ wl[g] = "run"
  /\ timers.ticker[g] # 0
  /\ timers.now >= timers.ticker[g]
  /\ IF handle[conn] = "open"
     THEN /\ timers' =
               [timers EXCEPT
                  !.ticker[g] = @ + pingInterval,
                  !.readDeadline[conn] =
                     IF Reading(conn) THEN timers.now + pongTimeout ELSE @]
          /\ UNCHANGED wl
     ELSE /\ wl' = [wl EXCEPT ![g] = "off"]
          /\ UNCHANGED timers
  /\ UNCHANGED << state, reconnectEnabled, reconnectAttempts, connVars, doneClosed,
                  crashed, triggerVars, queueVars, pc, flushLocal, sendVars, rl,
                  readOn, histVars, delay, callbackVars, notifyVars, flushHist >>

\* ReadMessage returns a timeout error: the read deadline of the handle it
\* reads has passed. The loop returns.
ReadLoopTimeout(g) ==
  /\ ~crashed
  /\ rl[g] = "read"
  /\ timers.readDeadline[readOn[g]] # 0
  /\ timers.now >= timers.readDeadline[readOn[g]]
  /\ rl' = [rl EXCEPT ![g] = "deferred"]
  /\ UNCHANGED << state, reconnectEnabled, reconnectAttempts, connVars, doneClosed,
                  crashed, triggerVars, queueVars, pc, flushLocal, sendVars, readOn,
                  wl, histVars, delay, callbackVars, notifyVars, flushHist, timers >>

\* A timer is due: a tick of a running write loop's ticker, or the deadline
\* of a blocked read.
TimerDue ==
  \/ \E g \in Gens :
       wl[g] = "run" /\ timers.ticker[g] # 0 /\ timers.now >= timers.ticker[g]
  \/ \E g \in Gens :
       /\ rl[g] = "read"
       /\ timers.readDeadline[readOn[g]] # 0
       /\ timers.now >= timers.readDeadline[readOn[g]]

\* A second passes; a timer that is due fires first.
Tick(maxTime) ==
  /\ ~crashed
  /\ timers.now < maxTime
  /\ ~TimerDue
  /\ timers' = [timers EXCEPT !.now = @ + 1]
  /\ UNCHANGED << state, reconnectEnabled, reconnectAttempts, connVars, doneClosed,
                  crashed, triggerVars, queueVars, pc, flushLocal, sendVars,
                  ioLoopVars, histVars, delay, callbackVars, notifyVars, flushHist >>

\* ------------------------------------------------------------- environment

\* The connection of handle g breaks (network drop, peer gone, or the demo's
\* "Simulate Network Drop"): reads and writes on it fail from now on.
NetworkDrop(g) ==
  /\ ~crashed
  /\ handle[g] = "open"
  /\ handle' = [handle EXCEPT ![g] = "closed"]
  /\ UNCHANGED << state, reconnectEnabled, reconnectAttempts, conn, doneClosed,
                  crashed, triggerVars, queueVars, pc, flushLocal, sendVars, ioLoopVars, histVars >>
  /\ UNCHANGED << delay, callbackVars, timers, notifyVars, flushHist >>

\* ------------------------------------------------------------ specification

\* The connection life cycle: up to MaxGen handshakes succeed, and the UI
\* calls Send at most once. With a single message sendChan is never full when
\* a hand-off is tried, so SendTimeout and FlushTimeout cannot happen and are
\* not listed.
Next ==
  \/ UIConnect
  \/ UIDisconnect
  \/ UISendBegin(1)
  \/ SendNotConnected
  \/ SendDeliver
  \/ \E enable \in BOOLEAN : UIEnableReconnect(enable)
  \/ \E t \in Threads : DialFail(t)
  \/ \E t \in Threads : DialAuth(t)
  \/ \E t \in Threads : DialOk(t, MaxGen)
  \/ \E t \in Threads : FlushHandOff(t)
  \/ \E t \in Threads : ConnectReturn(t)
  \/ \E l \in Loops : RLStart(l)
  \/ \E l \in Loops : RLCheck(l, MaxAttempts)
  \/ \E l \in Loops : RLWaitTimer(l)
  \/ \E l \in Loops : RLWaitDone(l)
  \/ \E g \in Gens : ReadLoopSelect(g)
  \/ \E g \in Gens : ReadLoopMessage(g)
  \/ \E g \in Gens : ReadLoopError(g)
  \/ \E g \in Gens : ReadLoopDeferred(g)
  \/ \E g \in Gens : WriteLoopDone(g)
  \/ \E g \in Gens : WriteLoopMessage(g)
  \/ \E g \in Gens : WriteLoopPing(g)
  \/ \E g \in Gens : NetworkDrop(g)

Spec == Init /\ [][Next]_vars

\* The pending queue: up to MaxSends calls of Send, around one successful
\* handshake (one flush).
NextQueue ==
  \/ UIConnect
  \/ UIDisconnect
  \/ UISendBegin(MaxSends)
  \/ SendNotConnected
  \/ SendDeliver
  \/ SendTimeout
  \/ \E enable \in BOOLEAN : UIEnableReconnect(enable)
  \/ \E t \in Threads : DialFail(t)
  \/ \E t \in Threads : DialAuth(t)
  \/ \E t \in Threads : DialOk(t, 1)
  \/ \E t \in Threads : FlushHandOff(t)
  \/ \E t \in Threads : ConnectReturn(t)
  \/ \E t \in Threads : FlushTimeout(t)
  \/ \E l \in Loops : RLStart(l)
  \/ \E l \in Loops : RLCheck(l, MaxAttempts)
  \/ \E l \in Loops : RLWaitTimer(l)
  \/ \E l \in Loops : RLWaitDone(l)
  \/ \E g \in Gens : ReadLoopSelect(g)
  \/ \E g \in Gens : ReadLoopMessage(g)
  \/ \E g \in Gens : ReadLoopError(g)
  \/ \E g \in Gens : ReadLoopDeferred(g)
  \/ \E g \in Gens : WriteLoopDone(g)
  \/ \E g \in Gens : WriteLoopMessage(g)
  \/ \E g \in Gens : WriteLoopPing(g)
  \/ \E g \in Gens : NetworkDrop(g)

SpecQueue == Init /\ [][NextQueue]_vars

\* The reconnect loop against a server that stays unreachable: every dial
\* fails, and the loop retries up to MaxRetries times.
NextRetry ==
  \/ \E stateCb, errorCb \in BOOLEAN : SetCallbacks(stateCb, errorCb)
  \/ UIConnect
  \/ \E enable \in BOOLEAN : UIEnableReconnect(enable)
  \/ \E t \in Threads : DialFail(t)
  \/ \E l \in Loops : RLStart(l)
  \/ \E l \in Loops : RLCheck(l, MaxRetries)
  \/ \E l \in Loops : RLWaitTimer(l)

SpecRetry == Init /\ [][NextRetry]_vars

\* The notification protocol of updateState: up to MaxUpdates calls, by any
\* threads and with any values, concurrent with each other and with
\* SetCallbacks.
NextNotify ==
  \/ \E stateCb, errorCb \in BOOLEAN : SetCallbacks(stateCb, errorCb)
  \/ \E t \in Threads, new \in ConnectionState : updateStateLocked(t, new, MaxUpdates)
  \/ \E t \in Threads : updateStateNotify(t)
  \/ \E t \in Threads : updateStateChecked(t)
  \/ \E t \in Threads : updateStateInvoke(t)

SpecNotify == Init /\ [][NextNotify]_vars

\* Automatic reconnection to a server that comes back: reconnection stays
\* enabled, no shutdown is signalled, and the dial fails at most until attempt
\* MaxRetries. The caller triggers the loop with Send or EnableReconnect(true).
NextLive ==
  \/ UISendBegin(1)
  \/ SendNotConnected
  \/ SendDeliver
  \/ UIEnableReconnect(TRUE)
  \/ \E l \in Loops : RLStart(l)
  \/ \E l \in Loops : RLCheck(l, MaxRetries)
  \/ \E l \in Loops : RLWaitTimer(l)
  \/ \E l \in Loops : reconnectAttempts < MaxRetries /\ DialFail(l)
  \/ \E l \in Loops : DialOk(l, 1)
  \/ \E l \in Loops : FlushHandOff(l)
  \/ \E l \in Loops : ConnectReturn(l)

\* The steps of reconnect loop l, the dial's outcomes included.
LoopStep(l) ==
  \/ RLStart(l)
  \/ RLCheck(l, MaxRetries)
  \/ RLWaitTimer(l)
  \/ reconnectAttempts < MaxRetries /\ DialFail(l)
  \/ DialOk(l, 1)
  \/ FlushHandOff(l)
  \/ ConnectReturn(l)

\* The scheduler runs every goroutine that can take a step, timers fire and
\* every dial returns.
SpecLive ==
  Init /\ [][NextLive]_vars /\ \A l \in Loops : WF_vars(LoopStep(l))

\* Connection loss and automatic reconnection: the caller connects once, and
\* each later handshake, up to MaxHandles in all, is the reconnect loop's.
NextGen ==
  \/ conn = 0 /\ UIConnect
  \/ UISendBegin(1)
  \/ SendNotConnected
  \/ SendDeliver
  \/ \E t \in Threads : DialFail(t)
  \/ \E t \in Threads : DialOk(t, MaxHandles)
  \/ \E t \in Threads : FlushHandOff(t)
  \/ \E t \in Threads : ConnectReturn(t)
  \/ \E g \in Gens : WriteLoopMessage(g)
  \/ \E l \in Loops : RLStart(l)
  \/ \E l \in Loops : RLCheck(l, MaxAttempts)
  \/ \E l \in Loops : RLWaitTimer(l)
  \/ \E g \in Gens : ReadLoopSelect(g)
  \/ \E g \in Gens : ReadLoopMessage(g)
  \/ \E g \in Gens : ReadLoopError(g)
  \/ \E g \in Gens : ReadLoopDeferred(g)
  \/ \E g \in Gens : WriteLoopPing(g)
  \/ \E g \in Gens : NetworkDrop(g)

SpecGen == Init /\ [][NextGen]_vars

\* Connect statement by statement, racing with the reconnect loop: the caller
\* uses EnableReconnect(true) and Connect, and one handshake succeeds.
NextCounter ==
  \/ UIEnableReconnect(TRUE)
  \/ UIConnect
  \/ \E t \in Threads : DialFail(t)
  \/ \E t \in Threads : ConnectStore(t, 1)
  \/ \E t \in Threads : ConnectStarted(t)
  \/ \E l \in Loops : RLStart(l)
  \/ \E l \in Loops : RLCheck(l, MaxAttempts)
  \/ \E l \in Loops : RLWaitTimer(l)
  \/ \E g \in Gens : ReadLoopSelect(g)
  \/ \E g \in Gens : ReadLoopError(g)
  \/ \E g \in Gens : ReadLoopDeferred(g)
  \/ \E g \in Gens : NetworkDrop(g)

SpecCounter == Init /\ [][NextCounter]_vars

\* The keepalive of one connection on a healthy network, in real time: the
\* caller connects, the handshake succeeds, the connection never breaks, and
\* the peer sends messages and answers every ping at once.
NextKeepalive ==
  \/ conn = 0 /\ UIConnect
  \/ \E t \in Threads : DialOk(t, 1)
  \/ \E g \in Gens : pingLoop(g)
  \/ \E g \in Gens : WriteLoopTicker(g)
  \/ \E g \in Gens : WriteLoopTick(g)
  \/ \E g \in Gens : ReadLoopSelect(g)
  \/ \E g \in Gens : ~TimerDue /\ ReadLoopMessage(g)
  \/ \E g \in Gens : ReadLoopTimeout(g)
  \/ \E g \in Gens : ReadLoopDeferred(g)
  \/ Tick(MaxTime)

SpecKeepalive == Init /\ [][NextKeepalive]_vars

\* ------------------------------------------------------------------ claims

InDial == {t \in Threads : pc[t] = "dial"}

\* Number of Send calls that have returned.
sendsReturned == IF pc[UI] = "send" THEN nextMsg - 1 ELSE nextMsg

Min(a, b) == IF a <= b THEN a ELSE b

\* The most recent Min(k, n) of the messages 1..k, oldest first.
MostRecent(k, n) == [i \in 1..Min(k, n) |-> k - Min(k, n) + i]

\* C1: whenever the read loop's disconnect path runs while reconnection is
\* enabled, or Send queues a message while the state is Disconnected (as read
\* and still) with reconnection enabled, and no reconnect loop is running, a
\* reconnect loop is started by that step.
C1_LossStartsReconnectLoop ==
  [][ /\ \A g \in Gens :
           (ReadLoopDeferred(g) /\ reconnectEnabled /\ ActiveLoops = {})
             => ActiveLoops' # {}
      /\ (SendNotConnected /\ sendState = StateDisconnected
            /\ state = StateDisconnected /\ reconnectEnabled /\ ActiveLoops = {})
           => ActiveLoops' # {} ]_vars

\* C2: in every reachable state at most one reconnect loop is running.
C2_AtMostOneReconnectLoop == Cardinality(ActiveLoops) <= 1

\* A trigger was dropped while the reconnect loop it met is still running.
C2_Witness ==
  /\ ActiveLoops # {}
  /\ lastTrigger = "dropped"

\* C3: after Disconnect() has returned, and until the caller calls Connect() or
\* EnableReconnect(true), the state is Disconnected.
C3_StaysDisconnectedAfterDisconnect ==
  afterDisconnect => state = StateDisconnected

\* C4: the pending queue never holds more than maxQueueSize messages.
C4_QueueWithinCapacity == Len(messageQueue) <= maxQueueSize

\* More messages were queued than the queue holds, and the queue is full.
C4_Witness ==
  /\ conn = 0
  /\ sendsReturned > maxQueueSize
  /\ Len(messageQueue) = maxQueueSize

\* C5: as long as no flush has happened (no handshake has succeeded, so every
\* Send found the state not Connected), after k Send calls the queue holds
\* exactly the most recent min(k, maxQueueSize) messages in the order sent, and
\* every one of these calls, evicting or not, returned "queued".
C5_DropOldestKeepsMostRecent ==
  conn = 0 =>
    /\ messageQueue = MostRecent(sendsReturned, maxQueueSize)
    /\ sendResult \in {"none", "queued"}

\* A Send that evicted the oldest entry has returned.
C5_Witness ==
  /\ conn = 0
  /\ pc[UI] = "idle"
  /\ sendsReturned > maxQueueSize
  /\ sendResult = "queued"
  /\ Head(messageQueue) = sendsReturned - maxQueueSize + 1

\* C6: a Send that read a state other than Connected returns "queued" with its
\* message appended at the end of the pending queue, and does not crash.
C6_NotConnectedSendIsQueued ==
  [][ (pc[UI] = "send" /\ sendState # StateConnected /\ pc'[UI] = "idle")
        => /\ sendResult' = "queued"
           /\ messageQueue' # << >>
           /\ messageQueue'[Len(messageQueue')] = nextMsg
           /\ ~crashed' ]_vars

\* A Send made after Disconnect has returned "queued".
C6_Witness ==
  /\ doneClosed
  /\ sendResult = "queued"
  /\ messageQueue # << >>
  /\ messageQueue[Len(messageQueue)] = nextMsg

\* C7: at most one handshake is in flight at any time.
C7_OneHandshakeInFlight == Cardinality(InDial) <= 1

\* C8: a 401 leaves the state Disconnected and reconnection disabled, and from
\* then on, until EnableReconnect(true), no reconnect loop calls Connect and no
\* reconnect loop is started.
C8_NoReconnectAfterAuthRejection ==
  [][ /\ \A t \in Threads :
           DialAuth(t) => (state' = StateDisconnected /\ ~reconnectEnabled')
      /\ (authRejected /\ authRejected')
           => \A l \in Loops :
                /\ ~RLWaitTimer(l)
                /\ ~(pc[l] = "idle" /\ pc'[l] = "start") ]_vars

\* C9: EnableReconnect(true) called while the state is Disconnected sets the
\* flag and leaves a reconnect loop running.
C9_EnableReconnectStartsLoop ==
  [][ (UIEnableReconnect(TRUE) /\ state = StateDisconnected)
        => (reconnectEnabled' /\ ActiveLoops' # {}) ]_vars

\* C10: when an explicit Connect() fails with a dial error that is not a 401
\* while reconnection is enabled, the state is Disconnected and a reconnect
\* loop is running when Connect returns.
C10_FailedConnectStartsReconnect ==
  [][ (DialFail(UI) /\ reconnectEnabled)
        => (state' = StateDisconnected /\ ActiveLoops' # {}) ]_vars

\* C11: every call of Disconnect(), the first and any later one, completes
\* normally and leaves the state Disconnected and reconnection disabled (the
\* shutdown signal is closed at most once, so no call closes it again).
C11_DisconnectIdempotent ==
  [][ UIDisconnect
        => (~crashed' /\ state' = StateDisconnected /\ ~reconnectEnabled') ]_vars

\* C12: once a Connect() made after Disconnect() has succeeded, the read loop
\* runs its disconnect path from the state Connected only when the handle has
\* failed or has been closed by a new Disconnect().
C12_ConnectAfterDisconnectStaysConnected ==
  [][ \A g \in Gens :
        (ReadLoopDeferred(g) /\ doneClosed /\ ~afterDisconnect
           /\ state = StateConnected)
          => handle[conn] # "open" ]_vars

\* C13: the state value changes to Connected only from Connecting.
C13_ConnectedOnlyFromConnecting ==
  [][ (state # StateConnected /\ state' = StateConnected)
        => state = StateConnecting ]_vars

\* C14: whenever the state is set to Reconnecting, reconnection is enabled.
C14_ReconnectingOnlyWhenEnabled ==
  [][ \A l \in Loops : RLStart(l) => reconnectEnabled ]_vars

\* Number of occurrences of v in the sequence sq.
Count(sq, v) == Cardinality({i \in 1..Len(sq) : sq[i] = v})

IsPrefix(p, sq) == Len(p) <= Len(sq) /\ SubSeq(sq, 1, Len(p)) = p

\* C15: every notification is the new value of a change of the state field
\* made before it, and no change is notified twice; once every updateState
\* call has returned, and a callback was registered throughout, every change
\* has been notified exactly once (so an update to the same value notified
\* nothing); while no callback is registered nothing is notified.
C15_NotifiedExactlyOncePerChange ==
  [][ /\ \A v \in ConnectionState : Count(notifications', v) <= Count(changes', v)
      /\ ((\A t \in Threads : updating'[t] = << >>) /\ ~nilSeen')
           => \A v \in ConnectionState :
                Count(notifications', v) = Count(changes', v)
      /\ ~onStateChange => notifications' = notifications ]_vars

\* With a callback registered, a change and an update to the same value have
\* been made, and both calls have returned.
C15_Witness ==
  /\ ~nilSeen
  /\ \A t \in Threads : updating[t] = << >>
  /\ Len(changes) >= 1
  /\ updates > Len(changes)
  /\ Len(notifications) = Len(changes)

\* C16: with an on-error callback registered, a dial failure that is not a
\* 401, a read error of the read loop and a write error of the write loop each
\* invoke the callback.
C16_FailuresReachOnError ==
  [][ ( /\ onError
        /\ \/ \E t \in Threads : DialFail(t)
           \/ \E g \in Gens : ReadLoopError(g) /\ ~doneClosed
           \/ \E g \in Gens :
                (WriteLoopMessage(g) \/ WriteLoopPing(g)) /\ wl'[g] = "off" )
        => onErrorCalls' = onErrorCalls + 1 ]_vars

\* min(1s * 2^(n-1), 120s), in nanoseconds.
ExpectedDelay(n) == Mul64(FromInt(IF n >= 8 THEN 120 ELSE 2^(n - 1)), Second)

\* C17: the delay the reconnect loop computes for attempt n is
\* min(1s * 2^(n-1), 120s), for every n.
C17_BackoffDelayCapped ==
  [][ \A l \in Loops :
        (pc[l] = "check" /\ pc'[l] = "wait")
          => delay'[l] = ExpectedDelay(reconnectAttempts') ]_vars

\* C18: when a hand-off of a flush times out, the item that timed out is put
\* back at the front of the pending queue and the items behind it follow it
\* there in their order: the queue then begins with everything the flush had
\* not handed off.
C18_PartialFlushLosesNothing ==
  [][ \A t \in Threads :
        FlushTimeout(t)
          => /\ Len(messageQueue') >= Len(flushLocal[t])
             /\ SubSeq(messageQueue', 1, Len(flushLocal[t])) = flushLocal[t] ]_vars

\* C19: what a flush has handed to the outbound channel so far is, in the
\* order of the hand-offs, a prefix of the queue the flush took.
C19_FlushHandsOffInFifoOrder ==
  \A t \in Threads : IsPrefix(flushed[t], flushSnapshot[t])

\* A flush has handed off two messages.
C19_Witness ==
  \E t \in Threads : Len(flushed[t]) >= 2 /\ flushed[t] = flushSnapshot[t]

\* C20: a write error in the write loop, on a message or on a ping, leaves the
\* state Disconnected and, when reconnection is enabled, a reconnect loop
\* running, in the step that ends the loop.
C20_WriteErrorRunsDisconnectPath ==
  [][ \A g \in Gens :
        ((WriteLoopMessage(g) \/ WriteLoopPing(g)) /\ wl'[g] = "off")
          => /\ state' = StateDisconnected
             /\ reconnectEnabled => ActiveLoops' # {} ]_vars

\* C22: a reconnect loop whose backoff wait ends calls Connect() only while
\* reconnection is enabled: once the flag was cleared during the wait, no
\* handshake is started by the loop.
C22_NoConnectAfterDisableMidWait ==
  [][ \A l \in Loops : RLWaitTimer(l) => reconnectEnabled ]_vars

\* C23: a Connect() attempt of the reconnect loop that fails leaves the state
\* Reconnecting for the backoff wait that follows.
C23_FailedAttemptStaysReconnecting ==
  [][ \A l \in Loops : DialFail(l) => state' = StateReconnecting ]_vars

\* C28: whenever the state is Reconnecting, a reconnect loop is running.
C28_ReconnectingImpliesLoop ==
  state = StateReconnecting => ActiveLoops # {}

\* C29: whenever the state is Connected, the connection is intact, no shutdown
\* was signalled, no Connect and no flush is under way and Send has returned,
\* the pending queue is empty.
C29_NoMessageStranded ==
  ( /\ state = StateConnected
    /\ conn # 0
    /\ handle[conn] = "open"
    /\ ~doneClosed
    /\ \A t \in Threads : pc[t] \notin {"dial", "flush", "flushed", "send"} )
    => messageQueue = << >>

\* C30: whenever no updateState call is under way, and a callback was
\* registered throughout, the value most recently passed to onStateChange is
\* the current value of the state field.
C30_NotificationsInTransitionOrder ==
  ( /\ \A t \in Threads : updating[t] = << >>
    /\ ~nilSeen
    /\ notifications # << >> )
    => notifications[Len(notifications)] = state

\* C24: a reconnect loop, once started, keeps calling Connect() after each
\* backoff wait until an attempt succeeds: it eventually ends, with the state
\* Connected.
C24_ReconnectLoopRetriesUntilConnected ==
  (ActiveLoops # {}) ~> (ActiveLoops = {} /\ state = StateConnected)

\* The reconnect loop has connected and ended.
C24_Witness ==
  /\ ActiveLoops = {}
  /\ reconnectChan = 1
  /\ state = StateConnected
  /\ conn = 1
  /\ reconnectAttempts = 0

\* C26: whatever SetCallbacks does between the test and the call, the
\* callback that updateState calls is not nil.
C26_NoNilCallbackInvoked ==
  [][ \A t \in Threads : updateStateInvoke(t) => (onStateChange /\ ~crashed') ]_vars

\* C21: a read or write loop runs only while the handle its Connect stored is
\* the manager's current one: every loop of a generation has ended before a
\* later Connect stores a new handle, so at most one write loop takes from the
\* outbound channel.
C21_GenerationIsolation ==
  \A g \in Gens : (rl[g] # "off" \/ wl[g] # "off") => conn = g

\* C25: in the step in which a successful Connect() makes the state Connected,
\* the reconnect counter reads 0.
C25_CounterZeroWhenConnected ==
  [][ (state # StateConnected /\ state' = StateConnected)
        => reconnectAttempts' = 0 ]_vars

\* C27: on a healthy connection whose peer answers every ping at once, the
\* read deadline never expires and the state stays Connected.
C27_KeepaliveKeepsConnected ==
  [][ /\ \A g \in Gens : ~ReadLoopTimeout(g)
      /\ state = StateConnected => state' = StateConnected ]_vars

====
